---- MODULE Spec2Model ----
(***************************************************************************)
(* Re-movery (MOVERY): state-machine model of the vulnerability scan of    *)
(* Detector.py - search-space reduction followed by the per-signature,     *)
(* per-function matching loop of detector() - (Spec), of normalize and     *)
(* removeComment applied to bounded texts (NormalizeSpec, CommentSpec) and *)
(* of the function extraction of Preprocessing.py (PreSpec), of abstract   *)
(* applied to bounded bodies (AbstractSpec), and of the ParallelExecutor   *)
(* and LRUCache utilities (ExecSpec, LruSpec).                             *)
(*                                                                         *)
(* A text is a sequence of one-character strings, a line set is a set of   *)
(* texts.  JSON lists that the code only ever turns into sets, tests for   *)
(* emptiness or iterates for membership are modelled as sets.              *)
(***************************************************************************)
EXTENDS Integers, Sequences, FiniteSets, TLC

(***************************************************************************)
(* Bounds of the model.                                                    *)
(***************************************************************************)
\* number of vulnerability body files listed by os.listdir in one scan
MaxSigs == 2
\* number of functions in the target's function file
MaxFuncs == 2
\* length of the lines given to normalize
MaxLine == 3
\* length of the texts given to removeComment
MaxText == 4
\* number of function tags the tag tool lists in one preprocessor run
MaxTags == 3
\* length of the function bodies given to abstract
MaxBody == 4
\* number of tasks submitted to one ParallelExecutor
MaxTasks == 3
\* num_workers of the executor's pool
NumWorkers == 2
\* max_size of the LRUCache
MaxCache == 3
\* tracked size of the LRUCache up to which further puts are explored
MaxTracked == 5

(***************************************************************************)
(* Text helpers: normalize and removeComment.                              *)
(***************************************************************************)
Uppers == <<"A", "B", "C", "D", "E", "F", "G", "H", "P", "L", "M", "R", "T", "V", "Y">>
Lowers == <<"a", "b", "c", "d", "e", "f", "g", "h", "p", "l", "m", "r", "t", "v", "y">>

\* str.lower() on one character
Lower(c) ==
    IF \E i \in 1..Len(Uppers) : Uppers[i] = c
    THEN Lowers[CHOOSE i \in 1..Len(Uppers) : Uppers[i] = c]
    ELSE c

\* mutant: the tabs are kept
normalize_KeepsTabs(s) ==
    LET kept == SelectSeq(s, LAMBDA c : c \notin {"\r", " "})
    IN  [i \in 1..Len(kept) |-> Lower(kept[i])]

\* string.replace('\r','').replace('\t','').split(' ') joined by '' and lowered
normalize(s) ==
    LET kept == SelectSeq(s, LAMBDA c : c \notin {"\r", "\t", " "})
    IN  [i \in 1..Len(kept) |-> Lower(kept[i])]

\* index of the last character of the line that position i lies on
\* (the position before the next "\n", or the end of the text)
LineEnd(s, i) ==
    IF \E k \in i..Len(s) : s[k] = "\n"
    THEN (CHOOSE k \in i..Len(s) : s[k] = "\n" /\ \A m \in i..(k-1) : s[m] # "\n") - 1
    ELSE Len(s)

\* last index of the run of characters of set cs that starts at i (i-1 if none)
RECURSIVE RunEnd(_, _, _)
RunEnd(s, i, cs) ==
    IF i <= Len(s) /\ s[i] \in cs THEN RunEnd(s, i + 1, cs) ELSE i - 1

\* last index of the run of characters outside set cs that starts at i
RECURSIVE RunEndNot(_, _, _)
RunEndNot(s, i, cs) ==
    IF i <= Len(s) /\ s[i] \notin cs THEN RunEndNot(s, i + 1, cs) ELSE i - 1

\* index of the quote q closing a literal whose body starts at j, 0 if the
\* literal is not closed: (\\.|[^\\q])*q
RECURSIVE QuoteEnd(_, _, _)
QuoteEnd(s, j, q) ==
    IF j > Len(s) THEN 0
    ELSE IF s[j] = q THEN j
    ELSE IF s[j] = "\\" THEN (IF j < Len(s) THEN QuoteEnd(s, j + 2, q) ELSE 0)
    ELSE QuoteEnd(s, j + 1, q)

\* index of the "/" of the first "*/" at or after k, 0 if there is none
BlockEnd(s, k) ==
    IF \E m \in k..(Len(s) - 1) : s[m] = "*" /\ s[m+1] = "/"
    THEN 1 + (CHOOSE m \in k..(Len(s) - 1) :
                 /\ s[m] = "*" /\ s[m+1] = "/"
                 /\ \A n \in k..(m-1) : ~(s[n] = "*" /\ s[n+1] = "/"))
    ELSE 0

\* mutant: the quoted-literal alternatives are missing from 'noncomment'
MatchAt_NoLiterals(s, i) ==
    LET c  == s[i]
        nx == IF i < Len(s) THEN s[i+1] ELSE ""
    IN  IF c = "/" /\ nx = "/" THEN
            [end |-> IF LineEnd(s, i + 2) < i + 1 THEN i + 1 ELSE LineEnd(s, i + 2),
             keep |-> FALSE]
        ELSE IF c \in {"{", "}"} THEN
            [end |-> RunEnd(s, i, {"{", "}"}), keep |-> FALSE]
        ELSE IF c = "/" /\ nx = "*" /\ BlockEnd(s, i + 2) # 0 THEN
            [end |-> BlockEnd(s, i + 2), keep |-> FALSE]
        ELSE
            [end |-> RunEndNot(s, i + 1, {"/", "'", "\""}), keep |-> TRUE]

\* the match of c_regex that starts at position i: its last index and whether
\* it is the 'noncomment' group (kept) or a comment / brace run (dropped)
MatchAt(s, i) ==
    LET c  == s[i]
        nx == IF i < Len(s) THEN s[i+1] ELSE ""
    IN  IF c = "/" /\ nx = "/" THEN
            [end |-> IF LineEnd(s, i + 2) < i + 1 THEN i + 1 ELSE LineEnd(s, i + 2),
             keep |-> FALSE]
        ELSE IF c \in {"{", "}"} THEN
            [end |-> RunEnd(s, i, {"{", "}"}), keep |-> FALSE]
        ELSE IF c = "/" /\ nx = "*" /\ BlockEnd(s, i + 2) # 0 THEN
            [end |-> BlockEnd(s, i + 2), keep |-> FALSE]
        ELSE IF c \in {"'", "\""} /\ QuoteEnd(s, i + 1, c) # 0 THEN
            [end |-> QuoteEnd(s, i + 1, c), keep |-> TRUE]
        ELSE
            [end |-> RunEndNot(s, i + 1, {"/", "'", "\""}), keep |-> TRUE]

RECURSIVE RcScan(_, _)
RcScan(s, i) ==
    IF i > Len(s) THEN <<>>
    ELSE LET m == MatchAt(s, i)
         IN  (IF m.keep THEN SubSeq(s, i, m.end) ELSE <<>>) \o RcScan(s, m.end + 1)

\* ''.join of the noncomment groups of c_regex.finditer(string)
removeComment(s) == RcScan(s, 1)

(***************************************************************************)
(* Program constants.                                                      *)
(***************************************************************************)
\* theta = 0.5, the similarity threshold, as the fraction ThetaNum / ThetaDen
ThetaNum == 1
ThetaDen == 2
\* the minimum body size of "if len(vulBodySet) <= 3"
MinBody == 3

(***************************************************************************)
(* Input domains: lines, target functions, hash index, signatures.         *)
(***************************************************************************)
la == <<"a">>
lb == <<"b">>
lc == <<"c">>
ld == <<"d">>
le == <<"e">>
lp == <<"p">>
lf == <<"f">>
lg == <<"g">>
lh == <<"h">>
lbrace == <<"{">>

\* function keys name##seg@@...@@file, in the order of the function file
KeyOrder ==
    << [name |-> "f", path |-> <<"d1", "x.c">>],
       [name |-> "h", path |-> <<"d2", "z.c">>],
       [name |-> "g", path |-> <<"d1", "y.c">>] >>
Keys == {KeyOrder[i] : i \in 1..Len(KeyOrder)}
KeyPos(k) == CHOOSE i \in 1..Len(KeyOrder) : KeyOrder[i] = k

\* 'norm' and 'abst' line lists of a function record, as line sets
BodyVul   == [norm |-> {la, lb, lbrace},     abst |-> {lf, lg, lbrace}]
BodyFixed == [norm |-> {la, lb, lp, lbrace}, abst |-> {lf, lg, lh, lbrace}]
BodyOld   == [norm |-> {la, le},             abst |-> {lf}]
BodyOther == [norm |-> {lb, lc},             abst |-> {lg}]
BodyParam == [norm |-> {la, lb},             abst |-> {lg}]
Bodies == {BodyVul, BodyFixed, BodyOld, BodyOther, BodyParam}

\* the target's function file: a map from at most MaxFuncs keys to records
Targets ==
    UNION { [ks -> Bodies] : ks \in {s \in SUBSET Keys : Cardinality(s) <= MaxFuncs} }

\* md5(normalize_hash(''.join(norm))): a collision-free digest of the
\* normalized body with the braces stripped
HashOf(norm) == norm \ {<<"{">>, <<"}">>}

\* vulHashes (component -> hashes) and ossIDX (component -> indices)
Indexes ==
    { [vulHashes |-> [o \in {"o1"} |-> {HashOf(b.norm) : b \in Bodies}],
       ossIDX    |-> [o \in {"o1"} |-> {"1"}]],
      [vulHashes |-> [o \in {"o1"} |-> {HashOf(BodyVul.norm)}],
       ossIDX    |-> [o \in {"o2"} |-> {"1"}]],
      [vulHashes |-> ("o1" :> {HashOf(BodyVul.norm)}) @@ ("o2" :> {HashOf(BodyOld.norm)}),
       ossIDX    |-> ("o1" :> {"1"}) @@ ("o2" :> {"2"})] }

Idxs == {"1", "2"}

\* essential and patch-added line entries ({original, abstracted} pairs)
EssA   == [vul_body |-> <<"A", " ">>, abs_body |-> <<"F">>]
PatNew == [pat_body |-> <<"p">>,      abs_body |-> <<"h">>]
PatBrc == [pat_body |-> <<"{">>,      abs_body |-> <<"{">>]
PatRen == [pat_body |-> <<"P", " ">>, abs_body |-> <<"F">>]
PatOld == [pat_body |-> <<"b">>,      abs_body |-> <<"g">>]

\* dependency line entries
DepA == [abs_norm_vul |-> <<"f">>,      orig_norm_vul |-> <<"a">>]
DepP == [abs_norm_vul |-> <<"{", "h">>, orig_norm_vul |-> <<"{", "p">>]
DepB == [abs_norm_vul |-> <<"g">>,      orig_norm_vul |-> <<"b">>]

\* dependency documents: empty is len(vul_depLines) = 0; vul is the union of
\* the categories under "vul" (or of the flat document); old the same under "old"
DepNone  == [empty |-> TRUE,  vul |-> {},     hasOld |-> FALSE, old |-> {}]
DepBlank == [empty |-> FALSE, vul |-> {},     hasOld |-> FALSE, old |-> {}]
DepCur   == [empty |-> FALSE, vul |-> {DepA}, hasOld |-> FALSE, old |-> {}]
DepBoth  == [empty |-> FALSE, vul |-> {DepP}, hasOld |-> TRUE,  old |-> {DepB}]
DepDocs == {DepNone, DepBlank, DepCur, DepBoth}

\* vulnerable-body documents: vul_body and the optional old_body
BodyDocs ==
    { [vul_body |-> {la, lb, lc, ld}, hasOld |-> FALSE, old_body |-> {}],
      [vul_body |-> {la, lb, lc, ld}, hasOld |-> TRUE,  old_body |-> {le}],
      [vul_body |-> {la, lb, lc, ld}, hasOld |-> TRUE,  old_body |-> {}],
      [vul_body |-> {la, lb, lc},     hasOld |-> TRUE,  old_body |-> {le}],
      [vul_body |-> {},               hasOld |-> FALSE, old_body |-> {}] }
BodyDocPlain == [vul_body |-> {la, lb, lc, ld}, hasOld |-> FALSE, old_body |-> {}]

\* the files of one vulnerability index: essFile is idx_common.txt or
\* idx_minus.txt (with its idx_depen.txt), plusFile is idx_plus.txt
MkSig(i, ef, ess, dep, pf, pat, bd) ==
    [idx |-> i, essFile |-> ef, vul_essLines |-> ess, vul_depLines |-> dep,
     plusFile |-> pf, pat_essLines |-> pat,
     vul_body |-> bd.vul_body, hasOld |-> bd.hasOld, old_body |-> bd.old_body]

EssChoices ==
    { <<FALSE, {}, DepNone>> } \cup
    { <<TRUE, ess, dep>> : ess \in {{}, {EssA}}, dep \in DepDocs }
PatChoices ==
    { <<FALSE, {}>> } \cup
    { <<TRUE, pat>> : pat \in {{}, {PatNew, PatBrc}, {PatRen}, {PatOld}} }

\* signatures that vary the exact checks over the plain body document, and
\* signatures that vary the body document over the three shapes; the second
\* index has delete-only signatures that vary the body document
Signatures ==
    { MkSig("1", e[1], e[2], e[3], p[1], p[2], BodyDocPlain) :
        e \in EssChoices, p \in PatChoices } \cup
    { MkSig("1", e[1], e[2], e[3], p[1], p[2], bd) :
        e \in {<<FALSE, {}, DepNone>>, <<TRUE, {EssA}, DepBlank>>},
        p \in {<<FALSE, {}>>, <<TRUE, {PatNew, PatBrc}>>},
        bd \in BodyDocs } \cup
    { MkSig("2", TRUE, {EssA}, DepBlank, FALSE, {}, bd) : bd \in BodyDocs }

NoSig == MkSig("", FALSE, {}, DepNone, FALSE, {}, [vul_body |-> {}, hasOld |-> FALSE, old_body |-> {}])

(***************************************************************************)
(* spaceReduction: hash intersection between the target and the store.     *)
(***************************************************************************)
\* funcHash[h]: the keys the target's hash file lists under hash h
FuncHash(fs, h) == {k \in DOMAIN fs : HashOf(fs[k].norm) = h}

\* mutant: the file name is kept, the key's whole path is recorded
PathDir_WholePath(k) == k.path

\* '@@'.join(key.split('##')[1].split('@@')[:-1]): the path without its file
PathDir(k) == SubSeq(k.path, 1, Len(k.path) - 1)

\* mutant: the hash test is missing, every listed component is a hit
HitComponents_AnyListed(fs, ix) == DOMAIN ix.vulHashes \cap DOMAIN ix.ossIDX

\* components of vulHashes that are listed in ossIDX and hit a target hash
HitComponents(fs, ix) ==
    {o \in DOMAIN ix.vulHashes \cap DOMAIN ix.ossIDX :
        \E h \in ix.vulHashes[o] : FuncHash(fs, h) # {}}

\* tarIDX: list(set(tarIDX)) after the extends
ReducedIDX(fs, ix) == UNION {ix.ossIDX[o] : o \in HitComponents(fs, ix)}

\* tarIDX before line 183: how often the extends of line 178 appended index i,
\* once per (component, hash) hit of a component that lists i
ExtendedIDX(fs, ix) ==
    [i \in ReducedIDX(fs, ix) |->
        Cardinality({oh \in {<<o, h>> : o \in HitComponents(fs, ix),
                                       h \in UNION {ix.vulHashes[c] : c \in DOMAIN ix.vulHashes}} :
                        /\ i \in ix.ossIDX[oh[1]]
                        /\ oh[2] \in ix.vulHashes[oh[1]]
                        /\ FuncHash(fs, oh[2]) # {}})]

\* list(set(tarIDX)): the number of copies of each index in the returned list
UniqueIDX(copies) == [i \in DOMAIN copies |-> 1]

\* the candidate list spaceReduction returns, as copies per index
CandidateList(fs, ix) == UniqueIDX(ExtendedIDX(fs, ix))

\* res: the directories of the functions whose hash was hit
HitDirs(fs, ix) ==
    {PathDir(k) : k \in UNION {FuncHash(fs, h) :
                     h \in UNION {ix.vulHashes[o] : o \in HitComponents(fs, ix)}}}

\* tempTar: the functions kept for matching
ReducedFuncs(fs, ix) == {k \in DOMAIN fs : PathDir(k) \in HitDirs(fs, ix)}

(***************************************************************************)
(* detector: the per-signature preparation (lines 244-374).                *)
(***************************************************************************)
\* "else: if len(vul_essLines) == 0: continue"
SkipsSignature(s) == ~s.plusFile /\ s.vul_essLines = {}

\* flag: 1 after an essential-line file, 2 after a plus file, 3 when the plus
\* lines exist and the essential lines do not
FlagOf(s) ==
    IF s.pat_essLines # {} /\ s.vul_essLines = {} THEN 3
    ELSE IF s.plusFile THEN 2
    ELSE IF s.essFile THEN 1
    ELSE 0

patAbsLines(s) == {normalize(p.abs_body) : p \in s.pat_essLines}
vulAbsLines(s) == {normalize(v.abs_body) : v \in s.vul_essLines}

\* mutant: isAbs is never set to 0
IsAbsOf_AlwaysAbstract(s) == 1

\* isAbs: 0 only when both line lists exist and their abstracted sets agree
IsAbsOf(s) ==
    IF s.pat_essLines # {} /\ s.vul_essLines # {} /\ patAbsLines(s) = vulAbsLines(s)
    THEN 0 ELSE 1

\* the temp[:] filters of lines 304 and 307
NotBlank(ls) == {l \in ls : l # <<"{">> /\ l # <<"}">> /\ l # <<>>}

\* the patch entries whose normalized text is not a line of the vulnerable body
FreshPatches(s) == {p \in s.pat_essLines : normalize(p.pat_body) \notin s.vul_body}

NewPat(s)    == NotBlank({normalize(p.pat_body) : p \in FreshPatches(s)})
NewAbsPat(s) == NotBlank({normalize(p.abs_body) : p \in FreshPatches(s)})

\* locals that are assigned only inside a conditional block keep the value of
\* an earlier iteration, or are unbound (def = FALSE) on the first one
UnboundPat == [def |-> FALSE, newPat |-> {}, newAbsPat |-> {}]
UnboundDep == [def |-> FALSE, absW |-> {}, norW |-> {}, absO |-> {}, norO |-> {}]

\* lines 285-308: newPat / newAbsPat are assigned iff len(pat_essLines) > 0
PatSetsAfter(s, old) ==
    IF s.pat_essLines # {}
    THEN [def |-> TRUE, newPat |-> NewPat(s), newAbsPat |-> NewAbsPat(s)]
    ELSE old

\* lines 323-355: the four dependency sets are assigned iff len(vul_depLines) > 0
DepSetsAfter(s, old) ==
    IF ~s.vul_depLines.empty
    THEN [def  |-> TRUE,
          absW |-> {removeComment(d.abs_norm_vul)  : d \in s.vul_depLines.vul},
          norW |-> {removeComment(d.orig_norm_vul) : d \in s.vul_depLines.vul},
          absO |-> IF s.vul_depLines.hasOld
                   THEN {removeComment(d.abs_norm_vul) : d \in s.vul_depLines.old}
                   ELSE {},
          norO |-> IF s.vul_depLines.hasOld
                   THEN {removeComment(d.orig_norm_vul) : d \in s.vul_depLines.old}
                   ELSE {}]
    ELSE old

coreAbsVulLines(s) == {normalize(v.abs_body) : v \in s.vul_essLines}
coreVulLines(s)    == {normalize(v.vul_body) : v \in s.vul_essLines}

(***************************************************************************)
(* detector: the evaluation of one (signature, target function) pair       *)
(* (lines 377-525).  ps and ds are the patch and dependency locals.        *)
(***************************************************************************)
\* y (abstracted lines) when isAbs = 1, x (normalized lines) otherwise
MatchLines(s, f) == IF IsAbsOf(s) = 1 THEN f.abst ELSE f.norm

\* coreAbsVulLines.issubset(y) / coreVulLines.issubset(x)
EssentialOK(s, f) ==
    IF IsAbsOf(s) = 1 THEN coreAbsVulLines(s) \subseteq f.abst
                      ELSE coreVulLines(s) \subseteq f.norm

DepWithout(s, ds) == IF IsAbsOf(s) = 1 THEN ds.absW ELSE ds.norW
DepWith(s, ds)    == IF IsAbsOf(s) = 1 THEN ds.absO ELSE ds.norO

\* the without-oldest loop, then the with-oldest retry when it failed
DependencyOK(s, ds, f) ==
    \/ DepWithout(s, ds) \subseteq MatchLines(s, f)
    \/ /\ DepWith(s, ds) # {}
       /\ DepWith(s, ds) \subseteq MatchLines(s, f)

\* mutant: the patch-added lines are not looked for
PatchAbsent_Unchecked(s, ps, f) == TRUE

\* newAbsPat.isdisjoint(y) / newPat.isdisjoint(x) of the flag 1/2 branch
PatchAbsent(s, ps, f) ==
    IF IsAbsOf(s) = 1 THEN ps.newAbsPat \cap f.abst = {}
                      ELSE ps.newPat \cap f.norm = {}

\* mutant: the patch-added lines are not looked for
PatchAbsent3_Unchecked(ps, f) == TRUE

\* newAbsPat.isdisjoint(y) of the flag 3 branch
PatchAbsent3(ps, f) == ps.newAbsPat \cap f.abst = {}

\* mutant: > theta instead of >= theta
MeetsTheta_Strict(body, x) ==
    ThetaDen * Cardinality(body \cap x) > ThetaNum * Cardinality(body)

\* float(len(body & x) / len(body)) >= theta, for a non-empty body
MeetsTheta(body, x) ==
    ThetaDen * Cardinality(body \cap x) >= ThetaNum * Cardinality(body)

\* mutant: < 3 instead of <= 3
TooSmall_OffByOne(s) == Cardinality(s.vul_body) < MinBody

\* mutant: the skip is missing
TooSmall_Never(s) == FALSE

\* "if len(vulBodySet) <= 3: continue"
TooSmall(s) == Cardinality(s.vul_body) <= MinBody

\* mutant: the with-oldest retry also runs after a failed essential-line check
ExactChecks_RetryOverrides(s, ps, ds, f) ==
    IF FlagOf(s) \in {1, 2} THEN
        IF ~ds.def THEN "crash_dep"
        ELSE IF ~EssentialOK(s, f) /\ ~(DepWith(s, ds) # {} /\ DepWith(s, ds) \subseteq MatchLines(s, f))
             THEN "fail_ess"
        ELSE IF EssentialOK(s, f) /\ ~DependencyOK(s, ds, f) THEN "fail_dep"
        ELSE IF FlagOf(s) = 2 /\ ~ps.def THEN "crash_pat"
        ELSE IF FlagOf(s) = 2 /\ ~PatchAbsent(s, ps, f) THEN "fail_pat"
        ELSE "pass"
    ELSE IF FlagOf(s) = 3 THEN
        IF ps.newAbsPat = {} THEN "skip"
        ELSE IF ~PatchAbsent3(ps, f) THEN "fail_pat"
        ELSE "pass"
    ELSE "skip"

\* the exact checks of the pair, by the check that ended them: fail_* is
\* step = 0, crash_* a NameError on a local that was never assigned, "skip"
\* the continue of an empty newAbsPat, "pass" is step = 1 at the similarity
ExactChecks(s, ps, ds, f) ==
    IF FlagOf(s) \in {1, 2} THEN
        IF ~EssentialOK(s, f) THEN "fail_ess"
        ELSE IF ~ds.def THEN "crash_dep"
        ELSE IF ~DependencyOK(s, ds, f) THEN "fail_dep"
        ELSE IF FlagOf(s) = 2 /\ ~ps.def THEN "crash_pat"
        ELSE IF FlagOf(s) = 2 /\ ~PatchAbsent(s, ps, f) THEN "fail_pat"
        ELSE "pass"
    ELSE IF FlagOf(s) = 3 THEN
        IF ps.newAbsPat = {} THEN "skip"
        ELSE IF ~PatchAbsent3(ps, f) THEN "fail_pat"
        ELSE "pass"
    ELSE "skip"

Crashes(ex) == ex \in {"crash_dep", "crash_pat"}

\* mutant: the oldest body is not compared
Similarity_VulOnly(s, f) ==
    LET small  == Cardinality(s.vul_body) <= MinBody
        vulHit == ~small /\ ThetaDen * Cardinality(s.vul_body \cap f.norm)
                               >= ThetaNum * Cardinality(s.vul_body)
    IN  [small     |-> small,
         vulDen    |-> IF small THEN -1 ELSE Cardinality(s.vul_body),
         oldDen    |-> -1,
         oldRaised |-> FALSE,
         by        |-> IF vulHit THEN "vul" ELSE "none"]

\* mutant: the "continue" after the first report is missing
Similarity_NoContinue(s, f) ==
    LET x       == f.norm
        small   == TooSmall(s)
        vulHit  == ~small /\ MeetsTheta(s.vul_body, x)
        oldDiv  == ~small /\ s.hasOld
    IN  [small     |-> small,
         vulDen    |-> IF small THEN -1 ELSE Cardinality(s.vul_body),
         oldDen    |-> IF oldDiv THEN Cardinality(s.old_body) ELSE -1,
         oldRaised |-> ~small /\ (~s.hasOld \/ s.old_body = {}),
         by        |-> IF vulHit THEN "vul"
                       ELSE IF oldDiv /\ s.old_body # {} /\ MeetsTheta(s.old_body, x)
                            THEN "old" ELSE "none"]

\* the similarity stage of a pair that passed the exact checks.  vulDen and
\* oldDen are the denominators of the divisions that were evaluated (-1: the
\* division was not reached); oldRaised: the try block raised and was passed
Similarity(s, f) ==
    LET x       == f.norm
        small   == TooSmall(s)
        vulHit  == ~small /\ MeetsTheta(s.vul_body, x)
        oldRun  == ~small /\ ~vulHit
        oldDiv  == oldRun /\ s.hasOld
        oldHit  == oldDiv /\ s.old_body # {} /\ MeetsTheta(s.old_body, x)
    IN  [small     |-> small,
         vulDen    |-> IF small THEN -1 ELSE Cardinality(s.vul_body),
         oldDen    |-> IF oldDiv THEN Cardinality(s.old_body) ELSE -1,
         oldRaised |-> oldRun /\ (~s.hasOld \/ s.old_body = {}),
         by        |-> IF vulHit THEN "vul" ELSE IF oldHit THEN "old" ELSE "none"]

NoSim == [small |-> FALSE, vulDen |-> -1, oldDen |-> -1, oldRaised |-> FALSE, by |-> "none"]

\* everything one pass of the inner loop does for function key k
Evaluate(s, ps, ds, k, f) ==
    LET ex  == ExactChecks(s, ps, ds, f)
        sim == IF ex = "pass" THEN Similarity(s, f) ELSE NoSim
    IN  [file    |-> k,
         exact   |-> ex,
         sim     |-> sim,
         printed |-> IF sim.by # "none" THEN 1 ELSE 0]

NoEval == [file |-> [name |-> "", path |-> <<>>], exact |-> "none", sim |-> NoSim, printed |-> 0]

(***************************************************************************)
(* The scan as a state machine.                                            *)
(***************************************************************************)
VARIABLES
    hashFile,  \* the target's hash file exists
    funcFile,  \* the target's function file exists
    pc,        \* "start", "files", "load", "funcs", "done", "aborted", "crashed"
    funcs,     \* the target's function file (key -> record)
    index,     \* the store's vulHashes and ossIDX
    tarIDX,    \* candidate vulnerability indices returned by spaceReduction
    tarFuncs,  \* keys of the functions returned by spaceReduction
    nsig,      \* vulnerability body files visited so far
    sig,       \* files of the vulnerability index under evaluation
    patSets,   \* newPat / newAbsPat
    depSets,   \* absDepens_* / norDepens_*
    pos,       \* position of the inner loop in tarFuncs
    last,      \* what the latest pass of the inner loop did
    text,      \* the string given to normalize / removeComment
    variant,   \* a second line, a case / blank variant of text
    lists,     \* the name lists abstract collected for text
    tpc,       \* "idle", "line", "normalized", "renormalized", "text", "stripped",
               \* "body", "abstracted"
    result,    \* what the function returned for text
    result2,   \* what normalize returned for variant, or for result
    ppc,       \* preprocessor: "idle", "walk", "file", "written"
    visited,   \* source paths of the files walked
    cur,       \* the file whose function tags are being processed
    ntag,      \* function tags processed so far
    OSSfuncSet,\* key -> record with the 'orig', 'norm', 'abst' line lists
    lastFn,    \* the latest function: its file, body, the tag tool's outcome, abstract's result
    artifacts, \* the function file and the hash file, once written
    epc,       \* ParallelExecutor: "idle", "submit", "loop", "got", "submitted",
               \* "finally", "stop", "returned"
    submitted, \* task id -> priority and behaviour of the submitted function
    taskq,     \* task ids in task_queue
    unfinished,\* task_queue._unfinished_tasks
    curTask,   \* the task the dispatch loop took from the queue (0: none)
    fut,       \* task id -> state of its future in the pool
    callbacks, \* task ids whose future holds the done callback
    results,   \* _results
    errors,    \* _errors
    handledAt, \* where _handle_result has run: "caller", "dispatch", "stop"
    lruCache,  \* LRUCache._cache: the entries, least recently used first
    lruSize,   \* LRUCache._size
    lruOut     \* what the latest LRUCache call did

scanVars == <<hashFile, funcFile, pc, funcs, index, tarIDX, tarFuncs, nsig, sig, patSets, depSets, pos, last>>
textVars == <<text, variant, lists, tpc, result, result2>>
preVars == <<ppc, visited, cur, ntag, OSSfuncSet, lastFn, artifacts>>
parVars == <<epc, submitted, taskq, unfinished, curTask, fut, callbacks, results, errors, handledAt>>
lruVars == <<lruCache, lruSize, lruOut>>
utilVars == <<parVars, lruVars>>
vars == <<scanVars, textVars, preVars, utilVars>>

\* the scan is not running / no text function is being applied
ScanIdle ==
    /\ hashFile = FALSE /\ funcFile = FALSE /\ pc = "idle"
    /\ funcs = <<>> /\ index = [vulHashes |-> <<>>, ossIDX |-> <<>>]
    /\ tarIDX = {} /\ tarFuncs = {} /\ nsig = 0 /\ sig = NoSig
    /\ patSets = UnboundPat /\ depSets = UnboundDep /\ pos = 0 /\ last = NoEval
NoTags == [ok |-> FALSE, parameterList |-> <<>>, dataTypeList |-> <<>>, variableList |-> <<>>]

TextIdle ==
    /\ text = <<>> /\ variant = <<>> /\ lists = NoTags
    /\ tpc = "idle" /\ result = <<>> /\ result2 = <<>>

NoFile == [path |-> <<>>, readable |-> FALSE]
NoFn == [key |-> [name |-> "", path |-> <<>>], readable |-> FALSE, raw |-> <<>>,
         toolOK |-> TRUE, absBody |-> <<>>, stored |-> FALSE, afterFailure |-> FALSE]
NoArtifacts == [written |-> FALSE, funcs |-> <<>>, hash |-> {}]

\* no executor and no cache is in use
ParIdle ==
    /\ epc = "idle" /\ submitted = <<>> /\ taskq = {} /\ unfinished = 0 /\ curTask = 0
    /\ fut = <<>> /\ callbacks = {} /\ results = <<>> /\ errors = <<>> /\ handledAt = {}
LruIdle == lruCache = <<>> /\ lruSize = 0 /\ lruOut = "idle"
UtilIdle == ParIdle /\ LruIdle

\* the preprocessor is not running
PreIdle ==
    /\ ppc = "idle" /\ visited = {} /\ cur = NoFile /\ ntag = 0
    /\ OSSfuncSet = <<>>
    /\ lastFn = NoFn /\ artifacts = NoArtifacts

\* mutant: the pass never advances, the first function is taken every time
NthKey_First(ks, n) == CHOOSE k \in ks : \A m \in ks : KeyPos(k) <= KeyPos(m)

\* the n-th key of set ks in the order of the function file
RECURSIVE NthKey(_, _)
NthKey(ks, n) ==
    LET first == CHOOSE k \in ks : \A m \in ks : KeyPos(k) <= KeyPos(m)
    IN  IF n = 1 THEN first ELSE NthKey(ks \ {first}, n - 1)

\* mutant: every listed body file is evaluated
IsCandidate_Always(i, cands) == TRUE

\* "idx not in tarIDX" is the continue of line 233
IsCandidate(i, cands) == i \in cands

\* mutant: "and" instead of "or"
ArtifactMissing_Both(hf, ff) == ~hf /\ ~ff

\* the test of line 160
ArtifactMissing(hf, ff) == ~hf \/ ~ff

Init ==
    /\ hashFile \in BOOLEAN
    /\ funcFile \in BOOLEAN
    /\ pc = "start"
    /\ funcs \in Targets
    /\ index \in Indexes
    /\ tarIDX = {}
    /\ tarFuncs = {}
    /\ nsig = 0
    /\ sig = NoSig
    /\ patSets = UnboundPat
    /\ depSets = UnboundDep
    /\ pos = 0
    /\ last = NoEval
    /\ TextIdle
    /\ PreIdle
    /\ UtilIdle

\* spaceReduction, lines 159-162: a target artifact is missing, sys.exit()
Abort ==
    /\ pc = "start"
    /\ ArtifactMissing(hashFile, funcFile)
    /\ pc' = "aborted"
    /\ UNCHANGED <<hashFile, funcFile, funcs, index, tarIDX, tarFuncs, nsig, sig, patSets, depSets, pos, last>>
    /\ UNCHANGED <<textVars, preVars, utilVars>>

\* spaceReduction, lines 164-196, with both artifacts present.  An empty hash
\* file yields the single line '' whose split('\t')[1] raises IndexError
SpaceReduction ==
    /\ pc = "start"
    /\ ~ArtifactMissing(hashFile, funcFile)
    /\ IF DOMAIN funcs = {}
       THEN /\ pc' = "crashed"
            /\ UNCHANGED <<tarIDX, tarFuncs>>
       ELSE /\ pc' = "files"
            /\ tarIDX' = ReducedIDX(funcs, index)
            /\ tarFuncs' = ReducedFuncs(funcs, index)
    /\ UNCHANGED <<hashFile, funcFile, funcs, index, nsig, sig, patSets, depSets, pos, last>>
    /\ UNCHANGED <<textVars, preVars, utilVars>>

\* lines 228-245: the next body file; an index outside tarIDX is skipped,
\* otherwise the per-iteration locals are reset
NextFile ==
    /\ pc = "files"
    /\ nsig < MaxSigs
    /\ \E i \in Idxs :
         /\ sig' = [NoSig EXCEPT !.idx = i]
         /\ pc' = IF IsCandidate(i, tarIDX) THEN "load" ELSE "files"
    /\ nsig' = nsig + 1
    /\ last' = NoEval
    /\ pos' = 0
    /\ UNCHANGED <<hashFile, funcFile, funcs, index, tarIDX, tarFuncs, patSets, depSets>>
    /\ UNCHANGED <<textVars, preVars, utilVars>>

\* lines 247-374: read the files of the index and prepare the line sets
LoadSignature ==
    /\ pc = "load"
    /\ \E s \in Signatures :
         /\ s.idx = sig.idx
         /\ sig' = s
         /\ IF SkipsSignature(s)
            THEN /\ pc' = "files"
                 /\ UNCHANGED <<patSets, depSets, pos>>
            ELSE /\ patSets' = PatSetsAfter(s, patSets)
                 /\ depSets' = DepSetsAfter(s, depSets)
                 /\ pos' = 1
                 /\ pc' = IF tarFuncs = {} THEN "files" ELSE "funcs"
    /\ UNCHANGED <<hashFile, funcFile, funcs, index, tarIDX, tarFuncs, nsig, last>>
    /\ UNCHANGED <<textVars, preVars, utilVars>>

\* lines 377-525: one pass of "for file in tarFuncs"
EvalFunction ==
    /\ pc = "funcs"
    /\ LET k   == NthKey(tarFuncs, pos)
           out == Evaluate(sig, patSets, depSets, k, funcs[k])
       IN  /\ last' = out
           /\ IF Crashes(out.exact)
              THEN pc' = "crashed" /\ pos' = pos
              ELSE /\ pos' = pos + 1
                   /\ pc' = IF pos + 1 > Cardinality(tarFuncs) THEN "files" ELSE "funcs"
    /\ UNCHANGED <<hashFile, funcFile, funcs, index, tarIDX, tarFuncs, nsig, sig, patSets, depSets>>
    /\ UNCHANGED <<textVars, preVars, utilVars>>

\* lines 527-528: the listing is exhausted, the elapsed time is printed
Finish ==
    /\ pc = "files"
    /\ pc' = "done"
    /\ UNCHANGED <<hashFile, funcFile, funcs, index, tarIDX, tarFuncs, nsig, sig, patSets, depSets, pos, last>>
    /\ UNCHANGED <<textVars, preVars, utilVars>>

Next == Abort \/ SpaceReduction \/ NextFile \/ LoadSignature \/ EvalFunction \/ Finish

Spec == Init /\ [][Next]_vars

(***************************************************************************)
(* normalize and removeComment applied to bounded texts.                   *)
(***************************************************************************)
\* all texts over alphabet cs of length at most n
Texts(cs, n) == UNION {[1..k -> cs] : k \in 0..n}

Blanks == {" ", "\t", "\r"}
LineAlphabet == {"A", "a", "b"} \cup Blanks
TextAlphabet == {"a", "/", "*", "{", "'", "\"", "\n", "\\"}

\* the other case of a letter
SwapCase(c) ==
    IF \E i \in 1..Len(Uppers) : Uppers[i] = c
    THEN Lowers[CHOOSE i \in 1..Len(Uppers) : Uppers[i] = c]
    ELSE IF \E i \in 1..Len(Lowers) : Lowers[i] = c
    THEN Uppers[CHOOSE i \in 1..Len(Lowers) : Lowers[i] = c]
    ELSE c

\* the lines one edit away from v: a blank inserted or deleted, or the case
\* of one letter changed
LineEdits(v) ==
    {SubSeq(v, 1, i) \o <<c>> \o SubSeq(v, i + 1, Len(v)) :
        i \in (IF Len(v) < MaxLine THEN 0..Len(v) ELSE {}), c \in Blanks}
    \cup {SubSeq(v, 1, i - 1) \o SubSeq(v, i + 1, Len(v)) : i \in {j \in 1..Len(v) : v[j] \in Blanks}}
    \cup {[v EXCEPT ![i] = SwapCase(v[i])] : i \in 1..Len(v)}

\* the lines at most two edits away from t
LineVariants(t) == {t} \cup LineEdits(t) \cup UNION {LineEdits(v) : v \in LineEdits(t)}

NormalizeInit ==
    /\ text \in Texts(LineAlphabet, MaxLine)
    /\ variant \in LineVariants(text)
    /\ lists = NoTags
    /\ tpc = "line"
    /\ result = <<>> /\ result2 = <<>>
    /\ ScanIdle
    /\ PreIdle
    /\ UtilIdle

\* normalize(text) and normalize(variant)
Normalize ==
    /\ tpc = "line"
    /\ result' = normalize(text)
    /\ result2' = normalize(variant)
    /\ tpc' = "normalized"
    /\ UNCHANGED <<text, variant, lists>>
    /\ UNCHANGED <<scanVars, preVars, utilVars>>

\* normalize applied to its own output
NormalizeAgain ==
    /\ tpc = "normalized"
    /\ result2' = normalize(result)
    /\ tpc' = "renormalized"
    /\ UNCHANGED <<text, variant, lists, result>>
    /\ UNCHANGED <<scanVars, preVars, utilVars>>

NormalizeNext == Normalize \/ NormalizeAgain

NormalizeSpec == NormalizeInit /\ [][NormalizeNext]_vars

CommentInit ==
    /\ text \in Texts(TextAlphabet, MaxText)
    /\ variant = <<>>
    /\ lists = NoTags
    /\ tpc = "text"
    /\ result = <<>> /\ result2 = <<>>
    /\ ScanIdle
    /\ PreIdle
    /\ UtilIdle

\* removeComment(text)
RemoveComment ==
    /\ tpc = "text"
    /\ result' = removeComment(text)
    /\ tpc' = "stripped"
    /\ UNCHANGED <<text, variant, lists, result2>>
    /\ UNCHANGED <<scanVars, preVars, utilVars>>

CommentNext == RemoveComment

CommentSpec == CommentInit /\ [][CommentNext]_vars

(***************************************************************************)
(* Preprocessing.py: abstract and preprocessor.                            *)
(***************************************************************************)
\* \w of the regular expressions
IsWord(c) ==
    \/ \E i \in 1..Len(Uppers) : Uppers[i] = c \/ Lowers[i] = c
    \/ c \in {"_", "0", "1", "2", "3", "4", "5", "6", "7", "8", "9"}

FPARAM == <<"F", "P", "A", "R", "A", "M">>
DTYPE  == <<"D", "T", "Y", "P", "E">>
LVAR   == <<"L", "V", "A", "R">>

\* name occurs in s at positions i .. i + Len(name) - 1
OccursAt(s, i, name) ==
    /\ i >= 1 /\ i + Len(name) - 1 <= Len(s)
    /\ SubSeq(s, i, i + Len(name) - 1) = name

\* re.compile("(^|\W)" + name + "(\W)").sub("\g<1>TOKEN\g<2>", s): the matches
\* are looked for from left to right and do not overlap; a match takes the
\* non-word character before the name (or the start of s) and the one after it
RECURSIVE SubFrom(_, _, _, _)
SubFrom(s, i, name, token) ==
    LET n == Len(name)
    IN  IF i > Len(s) THEN <<>>
        ELSE IF i = 1 /\ OccursAt(s, 1, name) /\ n + 1 <= Len(s) /\ ~IsWord(s[n + 1])
             THEN token \o <<s[n + 1]>> \o SubFrom(s, n + 2, name, token)
        ELSE IF /\ ~IsWord(s[i]) /\ OccursAt(s, i + 1, name)
                /\ i + n + 1 <= Len(s) /\ ~IsWord(s[i + n + 1])
             THEN <<s[i]>> \o token \o <<s[i + n + 1]>> \o SubFrom(s, i + n + 2, name, token)
        ELSE <<s[i]>> \o SubFrom(s, i + 1, name, token)

\* an empty name is skipped ("if len(param) == 0: continue")
Substitute(s, name, token) == IF Len(name) = 0 THEN s ELSE SubFrom(s, 1, name, token)

\* the loop "for name in names: body = sub(name, token, body)"
RECURSIVE SubstituteAll(_, _, _)
SubstituteAll(s, names, token) ==
    IF names = <<>> THEN s
    ELSE SubstituteAll(Substitute(s, Head(names), token), Tail(names), token)

\* what abstract() collects from the tag tool's output for one body: nothing
\* (NoTags) when the tool failed (astString = "")
AbsTags ==
    { NoTags,
      [ok |-> TRUE, parameterList |-> << <<"a">> >>, dataTypeList |-> <<>>,
       variableList |-> << <<"b">> >>] }

\* mutant: a failure of the tag tool leaves the initial "" in abstractBody
abstract_EmptyOnFailure(body, tags) ==
    IF tags.ok
    THEN SubstituteAll(SubstituteAll(SubstituteAll(body, tags.parameterList, FPARAM),
                                     tags.dataTypeList, DTYPE), tags.variableList, LVAR)
    ELSE <<>>

\* abstract(body, ext): parameters, then data types, then local variables
abstract(body, tags) ==
    SubstituteAll(SubstituteAll(SubstituteAll(body, tags.parameterList, FPARAM),
                                tags.dataTypeList, DTYPE), tags.variableList, LVAR)

\* str.split('\n')
RECURSIVE SplitLines(_)
SplitLines(s) ==
    IF \E i \in 1..Len(s) : s[i] = "\n"
    THEN LET i == CHOOSE j \in 1..Len(s) : s[j] = "\n" /\ \A m \in 1..(j - 1) : s[m] # "\n"
         IN  <<SubSeq(s, 1, i - 1)>> \o SplitLines(SubSeq(s, i + 1, Len(s)))
    ELSE <<s>>

\* ''.join(lines)
RECURSIVE JoinLines(_)
JoinLines(ls) == IF ls = <<>> THEN <<>> ELSE Head(ls) \o JoinLines(Tail(ls))

\* normalize_hash: newlines and braces are removed as well
normalize_hash(s) ==
    LET kept == SelectSeq(s, LAMBDA c : c \notin {"\n", "\r", "\t", "{", "}", " "})
    IN  [i \in 1..Len(kept) |-> Lower(kept[i])]

\* md5(normalize_hash(''.join(norm))), as a collision-free digest
FuncDigest(rec) == normalize_hash(JoinLines(rec.norm))

\* the name of the scanned tree, and the source files under it (as path
\* segments below the tree's root)
TargetName == "t"
SourcePaths == { <<"d", "x.c">>, <<"d", "t", "y.c">>, <<"d", "t", "z.c">> }
FuncNames == {"f", "g"}
RawBodies ==
    { <<"a", ";", "\n", "b", ";">>,
      <<"/", "*", "\n", "*", "/", "a", ";">> }

\* filePath.split(target + '/')[1].split('/'): the piece between the first
\* two occurrences of "target/" in "./target/seg/.../file"
KeyPath(segs) ==
    IF \E j \in 1..(Len(segs) - 1) : segs[j] = TargetName
    THEN LET j == CHOOSE k \in 1..(Len(segs) - 1) :
                     segs[k] = TargetName /\ \A m \in 1..(k - 1) : segs[m] # TargetName
         IN  SubSeq(segs, 1, j - 1) \o <<"">>
    ELSE segs

\* newname = funcName + '##' + '@@'.join(...)
KeyOf(name, segs) == [name |-> name, path |-> KeyPath(segs)]

EmptyRecord == [orig |-> <<>>, norm |-> <<>>, abst |-> <<>>]

\* the record of lines 361-381
MkRecord(rawBody, absBody) ==
    IF rawBody # <<>> /\ absBody # <<>>
    THEN LET noComment    == SplitLines(removeComment(rawBody))
             noAbsComment == SplitLines(removeComment(absBody))
         IN  [orig |-> SplitLines(rawBody),
              norm |-> [i \in 1..Len(noComment) |-> normalize(noComment[i])],
              abst |-> [i \in 1..Len(noAbsComment) |-> normalize(noAbsComment[i])]]
    ELSE EmptyRecord

PreInit ==
    /\ ppc = "walk" /\ visited = {} /\ cur = NoFile /\ ntag = 0
    /\ OSSfuncSet = <<>>
    /\ lastFn = NoFn /\ artifacts = NoArtifacts
    /\ ScanIdle
    /\ TextIdle
    /\ UtilIdle

\* lines 311-318: the next source file of the walk.  The tag tool fails on it
\* (CalledProcessError, "continue"), or its tags are listed and readFile
\* returns its lines, '' when no encoding reads it
OpenFile ==
    /\ ppc = "walk"
    /\ \E p \in SourcePaths \ visited, st \in {"tagfail", "unreadable", "ok"} :
         /\ visited' = visited \cup {p}
         /\ IF st = "tagfail"
            THEN UNCHANGED <<ppc, cur>>
            ELSE ppc' = "file" /\ cur' = [path |-> p, readable |-> (st = "ok")]
    /\ UNCHANGED <<ntag, OSSfuncSet, lastFn, artifacts>>
    /\ UNCHANGED <<scanVars, textVars, utilVars>>

\* lines 328-381: one function tag of the current file
ExtractFunction ==
    /\ ppc = "file"
    /\ ntag < MaxTags
    /\ \E name \in FuncNames, body \in RawBodies, tags \in AbsTags :
         LET rawBody == IF cur.readable THEN body ELSE <<>>
             newname == KeyOf(name, cur.path)
             absBody == abstract(rawBody, tags)
         IN  /\ OSSfuncSet' = [k \in DOMAIN OSSfuncSet \cup {newname} |->
                                 IF k = newname THEN MkRecord(rawBody, absBody)
                                 ELSE OSSfuncSet[k]]
             /\ lastFn' = [key |-> newname, readable |-> cur.readable,
                           raw |-> rawBody, toolOK |-> tags.ok,
                           absBody |-> absBody, stored |-> TRUE,
                           afterFailure |-> (lastFn.stored /\ ~lastFn.toolOK) \/ lastFn.afterFailure]
    /\ ntag' = ntag + 1
    /\ UNCHANGED <<ppc, visited, cur, artifacts>>
    /\ UNCHANGED <<scanVars, textVars, utilVars>>

\* the tag list of the current file is exhausted
CloseFile ==
    /\ ppc = "file"
    /\ ppc' = "walk"
    /\ cur' = NoFile
    /\ UNCHANGED <<visited, ntag, OSSfuncSet, lastFn, artifacts>>
    /\ UNCHANGED <<scanVars, textVars, utilVars>>

\* lines 391-404: the walk is over, the function file and the hash file are written
WriteArtifacts ==
    /\ ppc = "walk"
    /\ ppc' = "written"
    /\ artifacts' = [written |-> TRUE, funcs |-> OSSfuncSet,
                     hash |-> {<<FuncDigest(OSSfuncSet[k]), k>> : k \in DOMAIN OSSfuncSet}]
    /\ UNCHANGED <<visited, cur, ntag, OSSfuncSet, lastFn>>
    /\ UNCHANGED <<scanVars, textVars, utilVars>>

PreNext == OpenFile \/ ExtractFunction \/ CloseFile \/ WriteArtifacts

PreSpec == PreInit /\ [][PreNext]_vars

(***************************************************************************)
(* abstract applied to bounded bodies and collected name lists.            *)
(***************************************************************************)
BodyAlphabet == {"a", "b", " ", ";"}

\* the lists abstract can collect over the names a and b: a name can be a
\* parameter and a local variable of an inner block, or a type and a variable
NameLists == {<<>>, << <<"a">> >>, << <<"b">> >>}
TagLists ==
    {[ok |-> TRUE, parameterList |-> p, dataTypeList |-> d, variableList |-> v] :
        p \in {<<>>, << <<"a">> >>}, d \in NameLists, v \in NameLists}

AbstractInit ==
    /\ text \in Texts(BodyAlphabet, MaxBody)
    /\ lists \in TagLists
    /\ variant = <<>>
    /\ tpc = "body"
    /\ result = <<>> /\ result2 = <<>>
    /\ ScanIdle
    /\ PreIdle
    /\ UtilIdle

\* abstract(text, ext) with the collected lists
Abstract ==
    /\ tpc = "body"
    /\ result' = abstract(text, lists)
    /\ tpc' = "abstracted"
    /\ UNCHANGED <<text, variant, lists, result2>>
    /\ UNCHANGED <<scanVars, preVars, utilVars>>

AbstractNext == Abstract

AbstractSpec == AbstractInit /\ [][AbstractNext]_vars

(***************************************************************************)
(* utils/parallel.py: ParallelExecutor over its TaskQueue and WorkerPool.  *)
(* The names contextmanager and PriorityQueue, which the module uses       *)
(* without importing them, stand for contextlib.contextmanager and         *)
(* queue.PriorityQueue.  A task id i stands for the string "t<i>"; a task  *)
(* function either returns or raises an Exception.                         *)
(***************************************************************************)
\* PriorityQueue.get on (priority, (task_id, ...)) entries: the least pair
NextTask(q, sub) ==
    CHOOSE i \in q : \A j \in q :
        \/ sub[i].priority < sub[j].priority
        \/ (sub[i].priority = sub[j].priority /\ i <= j)

\* _handle_result for task i, whose function returned (ok) or raised: the
\* result of future.result() goes to _results, the exception to _errors
HandleResult(m, i, ok, here) ==
    IF ok = here THEN m @@ (i :> <<IF ok THEN "value" ELSE "error", i>>) ELSE m

\* mutant: the pool is shut down without waiting for its work items
ShutdownDone_NoWait(f) == TRUE

\* WorkerPool.stop: _pool.shutdown() returns when every work item has run and
\* its worker has finished the done callbacks
ShutdownDone(f) == \A i \in DOMAIN f : f[i] = "done"

ExecInit ==
    /\ epc = "submit" /\ submitted = <<>> /\ taskq = {} /\ unfinished = 0 /\ curTask = 0
    /\ fut = <<>> /\ callbacks = {} /\ results = <<>> /\ errors = <<>> /\ handledAt = {}
    /\ LruIdle
    /\ ScanIdle /\ TextIdle /\ PreIdle

\* ParallelExecutor.submit / TaskQueue.put under a task id not used before
Submit ==
    /\ epc = "submit"
    /\ \E i \in (1..MaxTasks) \ DOMAIN submitted, p \in {0, 1}, b \in {"returns", "raises"} :
         /\ submitted' = submitted @@ (i :> [priority |-> p, behaviour |-> b])
         /\ taskq' = taskq \cup {i}
    /\ unfinished' = unfinished + 1
    /\ UNCHANGED <<epc, curTask, fut, callbacks, results, errors, handledAt>>
    /\ UNCHANGED <<scanVars, textVars, preVars, lruVars>>

\* execute(): get_context() starts the pool
StartExecute ==
    /\ epc = "submit"
    /\ epc' = "loop"
    /\ UNCHANGED <<submitted, taskq, unfinished, curTask, fut, callbacks, results, errors, handledAt>>
    /\ UNCHANGED <<scanVars, textVars, preVars, lruVars>>

\* "while not self.task_queue.empty(): ... = self.task_queue.get()"
GetTask ==
    /\ epc = "loop" /\ taskq # {}
    /\ curTask' = NextTask(taskq, submitted)
    /\ taskq' = taskq \ {NextTask(taskq, submitted)}
    /\ epc' = "got"
    /\ UNCHANGED <<submitted, unfinished, fut, callbacks, results, errors, handledAt>>
    /\ UNCHANGED <<scanVars, textVars, preVars, lruVars>>

\* future = self.worker_pool.submit(func, ...)
PoolSubmit ==
    /\ epc = "got"
    /\ fut' = fut @@ (curTask :> "queued")
    /\ epc' = "submitted"
    /\ UNCHANGED <<submitted, taskq, unfinished, curTask, callbacks, results, errors, handledAt>>
    /\ UNCHANGED <<scanVars, textVars, preVars, lruVars>>

\* future.add_done_callback(...): a finished future runs the callback at
\* once in the calling thread, any other keeps it for its worker
AddDoneCallback ==
    /\ epc = "submitted"
    /\ IF fut[curTask] = "done"
       THEN /\ results' = HandleResult(results, curTask,
                                       submitted[curTask].behaviour = "returns", TRUE)
            /\ errors' = HandleResult(errors, curTask,
                                      submitted[curTask].behaviour = "returns", FALSE)
            /\ handledAt' = handledAt \cup {"caller"}
            /\ UNCHANGED callbacks
       ELSE /\ callbacks' = callbacks \cup {curTask}
            /\ UNCHANGED <<results, errors, handledAt>>
    /\ epc' = "finally"
    /\ UNCHANGED <<submitted, taskq, unfinished, curTask, fut>>
    /\ UNCHANGED <<scanVars, textVars, preVars, lruVars>>

\* "finally: self.task_queue.task_done()"
TaskDone ==
    /\ epc = "finally"
    /\ unfinished' = unfinished - 1
    /\ curTask' = 0
    /\ epc' = "loop"
    /\ UNCHANGED <<submitted, taskq, fut, callbacks, results, errors, handledAt>>
    /\ UNCHANGED <<scanVars, textVars, preVars, lruVars>>

\* the queue is empty: task_queue.join() passes when _unfinished_tasks is 0,
\* and the return statement leaves the with block
Join ==
    /\ epc = "loop" /\ taskq = {}
    /\ unfinished = 0
    /\ epc' = "stop"
    /\ UNCHANGED <<submitted, taskq, unfinished, curTask, fut, callbacks, results, errors, handledAt>>
    /\ UNCHANGED <<scanVars, textVars, preVars, lruVars>>

\* get_context's "finally: self.stop()", then execute() returns the two maps
Stop ==
    /\ epc = "stop"
    /\ ShutdownDone(fut)
    /\ epc' = "returned"
    /\ UNCHANGED <<submitted, taskq, unfinished, curTask, fut, callbacks, results, errors, handledAt>>
    /\ UNCHANGED <<scanVars, textVars, preVars, lruVars>>

\* a free worker of the pool takes a queued work item
WorkerStart ==
    /\ \E i \in DOMAIN fut :
         /\ fut[i] = "queued"
         /\ Cardinality({j \in DOMAIN fut : fut[j] \in {"running", "calling"}}) < NumWorkers
         /\ fut' = [fut EXCEPT ![i] = "running"]
    /\ UNCHANGED <<epc, submitted, taskq, unfinished, curTask, callbacks, results, errors, handledAt>>
    /\ UNCHANGED <<scanVars, textVars, preVars, lruVars>>

\* the task function returns or raises: the future is finished, and its
\* worker goes on to the callback the future holds, if any
WorkerComplete ==
    /\ \E i \in DOMAIN fut :
         /\ fut[i] = "running"
         /\ fut' = [fut EXCEPT ![i] = IF i \in callbacks THEN "calling" ELSE "done"]
    /\ UNCHANGED <<epc, submitted, taskq, unfinished, curTask, callbacks, results, errors, handledAt>>
    /\ UNCHANGED <<scanVars, textVars, preVars, lruVars>>

\* _handle_result run by the worker, while the caller is in the dispatch loop
\* or already in stop()
WorkerCallback ==
    /\ \E i \in DOMAIN fut :
         /\ fut[i] = "calling"
         /\ results' = HandleResult(results, i, submitted[i].behaviour = "returns", TRUE)
         /\ errors' = HandleResult(errors, i, submitted[i].behaviour = "returns", FALSE)
         /\ handledAt' = handledAt \cup {IF epc = "stop" THEN "stop" ELSE "dispatch"}
         /\ fut' = [fut EXCEPT ![i] = "done"]
    /\ UNCHANGED <<epc, submitted, taskq, unfinished, curTask, callbacks>>
    /\ UNCHANGED <<scanVars, textVars, preVars, lruVars>>

ExecNext ==
    \/ Submit \/ StartExecute \/ GetTask \/ PoolSubmit \/ AddDoneCallback \/ TaskDone
    \/ Join \/ Stop \/ WorkerStart \/ WorkerComplete \/ WorkerCallback

ExecSpec == ExecInit /\ [][ExecNext]_vars

(***************************************************************************)
(* utils/memory.py: LRUCache.  An entry is a key with the size its put was *)
(* given; the module does not import sys, so every sys.getsizeof raises    *)
(* NameError.  Size 0 stands for a put without a size.                     *)
(***************************************************************************)
LruInit ==
    /\ lruCache = <<>> /\ lruSize = 0 /\ lruOut = "new"
    /\ ParIdle
    /\ ScanIdle /\ TextIdle /\ PreIdle

\* get: a held key is popped and inserted again, which makes it the newest
LruGet ==
    /\ lruOut # "idle"
    /\ \E k \in {"k1", "k2", "k3"} :
         IF \E i \in 1..Len(lruCache) : lruCache[i].key = k
         THEN LET i == CHOOSE j \in 1..Len(lruCache) : lruCache[j].key = k
              IN  /\ lruCache' = SubSeq(lruCache, 1, i - 1)
                                   \o SubSeq(lruCache, i + 1, Len(lruCache))
                                   \o <<lruCache[i]>>
                  /\ lruOut' = "hit"
         ELSE /\ lruOut' = "miss"
              /\ UNCHANGED lruCache
    /\ UNCHANGED lruSize
    /\ UNCHANGED <<scanVars, textVars, preVars, parVars>>

\* put: line 80 raises for a missing size; an oversized item is refused;
\* line 89 raises for a key that is held; the first pass of the eviction loop
\* pops the oldest entry and raises at line 93 before _size is reduced;
\* otherwise the entry is appended and its size added
LruPut ==
    /\ lruOut # "idle"
    /\ lruSize <= MaxTracked
    /\ \E k \in {"k1", "k2", "k3"}, size \in 0..(MaxCache + 1) :
         IF size = 0
         THEN lruOut' = "NameError" /\ UNCHANGED <<lruCache, lruSize>>
         ELSE IF size > MaxCache
         THEN lruOut' = "refused" /\ UNCHANGED <<lruCache, lruSize>>
         ELSE IF \E i \in 1..Len(lruCache) : lruCache[i].key = k
         THEN lruOut' = "NameError" /\ UNCHANGED <<lruCache, lruSize>>
         ELSE IF lruSize + size > MaxCache /\ lruCache # <<>>
         THEN /\ lruCache' = Tail(lruCache)
              /\ lruOut' = "NameError"
              /\ UNCHANGED lruSize
         ELSE /\ lruCache' = Append(lruCache, [key |-> k, size |-> size])
              /\ lruSize' = lruSize + size
              /\ lruOut' = "stored"
    /\ UNCHANGED <<scanVars, textVars, preVars, parVars>>

\* clear
LruClear ==
    /\ lruOut # "idle"
    /\ lruCache' = <<>>
    /\ lruSize' = 0
    /\ lruOut' = "cleared"
    /\ UNCHANGED <<scanVars, textVars, preVars, parVars>>

LruNext == LruGet \/ LruPut \/ LruClear

LruSpec == LruInit /\ [][LruNext]_vars

(***************************************************************************)
(* Vocabulary of the properties, stated on the signature's contents and    *)
(* the target function's line sets.                                        *)
(***************************************************************************)
\* the latest step evaluated a (signature, function) pair
Evaluated == last.exact # "none"
\* the function of that pair
LastFunc == funcs[last.file]
\* the pair was reported as a match
Reported == last.printed = 1

HasEssential(s) == s.vul_essLines # {}
HasPatch(s)     == s.pat_essLines # {}
DeleteOnly(s)   == HasEssential(s) /\ ~HasPatch(s)
DeleteAndAdd(s) == HasEssential(s) /\ HasPatch(s)
AddOnly(s)      == ~HasEssential(s) /\ HasPatch(s)

\* |body /\ x| / |body| >= 0.5 for a non-empty body
RatioAtLeastHalf(body, x) ==
    /\ body # {}
    /\ 2 * Cardinality(body \cap x) >= Cardinality(body)

\* abstracted / normalized forms of the signature's lines
AbsPatchLines(s)  == {normalize(p.abs_body) : p \in s.pat_essLines}
AbsEssLines(s)    == {normalize(v.abs_body) : v \in s.vul_essLines}
NormEssLines(s)   == {normalize(v.vul_body) : v \in s.vul_essLines}
AbstractMode(s)   == ~(DeleteAndAdd(s) /\ AbsPatchLines(s) = AbsEssLines(s))

\* a patch-added line the matcher tests: its normalized original text is not
\* a line of the vulnerable body and the compared form is not "{", "}" or ""
Bare == {<<"{">>, <<"}">>, <<>>}
EffectiveAbsPatch(s) ==
    {normalize(p.abs_body) : p \in {q \in s.pat_essLines : normalize(q.pat_body) \notin s.vul_body}} \ Bare
EffectiveNormPatch(s) ==
    {normalize(p.pat_body) : p \in {q \in s.pat_essLines : normalize(q.pat_body) \notin s.vul_body}} \ Bare

\* the target holds an effective patch-added line in the representation of
\* the signature's matching mode
HoldsEffectivePatch(s, f) ==
    IF AbstractMode(s) THEN EffectiveAbsPatch(s) \cap f.abst # {}
                       ELSE EffectiveNormPatch(s) \cap f.norm # {}

(***************************************************************************)
(* C1..C10                                                                 *)
(***************************************************************************)
\* C1 (as stated): for a delete-and-add signature no match is reported for a
\* target function whose abstracted lines contain any abstracted patch-added
\* line of the signature.
C1_AnyPatchLineSuppresses ==
    (Evaluated /\ DeleteAndAdd(sig) /\ AbsPatchLines(sig) \cap LastFunc.abst # {})
        => ~Reported

\* C1 (amended): for a delete-and-add signature no match is reported for a
\* target function whose line set, in the representation of the matching mode,
\* contains a patch-added line that is not brace-only or empty and whose
\* normalized original is not a line of the vulnerable body, whatever the
\* essential-line and dependency checks gave.
C1_EffectivePatchLineSuppresses ==
    (Evaluated /\ DeleteAndAdd(sig) /\ HoldsEffectivePatch(sig, LastFunc))
        => ~Reported

\* C1 witness: the essential and dependency checks passed, the body is
\* similar enough, and the patch-added line alone ended the pair.
C1_Witness ==
    /\ Evaluated /\ DeleteAndAdd(sig) /\ HoldsEffectivePatch(sig, LastFunc)
    /\ last.exact = "fail_pat"
    /\ Cardinality(sig.vul_body) > 3
    /\ RatioAtLeastHalf(sig.vul_body, LastFunc.norm)

\* C2 (as stated): for an add-only signature and a target function that
\* meets the similarity threshold against the vulnerable body (of more than 3
\* lines), a match is reported exactly when the target's abstracted lines
\* contain none of the signature's abstracted patch-added lines.
C2_AddOnlyReportedIffNoPatchLine ==
    ( /\ Evaluated /\ AddOnly(sig)
      /\ Cardinality(sig.vul_body) > 3
      /\ RatioAtLeastHalf(sig.vul_body, LastFunc.norm) )
        => (Reported <=> AbsPatchLines(sig) \cap LastFunc.abst = {})

\* C2 (amended): for an add-only signature, a target function whose abstracted
\* lines contain none of the effective patch-added lines is reported when at
\* least one effective line exists, the vulnerable body has more than 3 lines
\* and at least half of them occur in the target's normalized lines; a target
\* function whose abstracted lines contain an effective patch-added line is
\* not reported.
C2_AddOnlyEffectivePatchLines ==
    (Evaluated /\ AddOnly(sig)) =>
        /\ ( /\ EffectiveAbsPatch(sig) # {}
             /\ EffectiveAbsPatch(sig) \cap LastFunc.abst = {}
             /\ Cardinality(sig.vul_body) > 3
             /\ RatioAtLeastHalf(sig.vul_body, LastFunc.norm) ) => Reported
        /\ (EffectiveAbsPatch(sig) \cap LastFunc.abst # {}) => ~Reported

\* C2 witness: an add-only signature reported for a function that holds none
\* of its effective patch-added lines.
C2_Witness ==
    /\ Evaluated /\ AddOnly(sig) /\ Reported
    /\ EffectiveAbsPatch(sig) # {}
    /\ EffectiveAbsPatch(sig) \cap LastFunc.abst = {}
    /\ RatioAtLeastHalf(sig.vul_body, LastFunc.norm)

\* the dependency sets the detector holds are assigned and empty
DependencySetsEmpty ==
    /\ depSets.def
    /\ depSets.absW = {} /\ depSets.norW = {}
    /\ depSets.absO = {} /\ depSets.norO = {}

C5_ReportedOnEitherBody ==
    (Evaluated /\ last.exact = "pass" /\ Cardinality(sig.vul_body) > 3) =>
        (Reported <=> \/ RatioAtLeastHalf(sig.vul_body, LastFunc.norm)
                      \/ sig.hasOld /\ RatioAtLeastHalf(sig.old_body, LastFunc.norm))

\* C5 witness: reported on the oldest body, the vulnerable-body ratio below 0.5.
C5_Witness ==
    /\ Evaluated /\ last.exact = "pass" /\ Cardinality(sig.vul_body) > 3
    /\ ~RatioAtLeastHalf(sig.vul_body, LastFunc.norm)
    /\ sig.hasOld /\ RatioAtLeastHalf(sig.old_body, LastFunc.norm)
    /\ Reported

\* C6 (as stated): no similarity ratio is evaluated against a vulnerable or
\* oldest body of 3 or fewer lines.
C6_NoSmallReferenceBody ==
    Evaluated =>
        /\ last.sim.vulDen = -1 \/ last.sim.vulDen > 3
        /\ last.sim.oldDen = -1 \/ last.sim.oldDen > 3

\* C6 (amended): no similarity ratio is evaluated against a vulnerable body of
\* 3 or fewer lines, and for such a signature neither body is compared and
\* nothing is reported; the size of the oldest body itself is not checked.
C6_NoSmallVulnerableBody ==
    Evaluated =>
        /\ last.sim.vulDen = -1 \/ last.sim.vulDen > 3
        /\ Cardinality(sig.vul_body) <= 3 =>
              (last.sim.vulDen = -1 /\ last.sim.oldDen = -1 /\ ~Reported)

\* C6 witness: a pair that passed the exact checks and whose 3-line vulnerable
\* body lies in the target for more than half is skipped.
C6_Witness ==
    /\ Evaluated /\ last.exact = "pass"
    /\ Cardinality(sig.vul_body) = 3
    /\ RatioAtLeastHalf(sig.vul_body, LastFunc.norm)
    /\ ~Reported

\* C7 (as stated): no similarity ratio is computed with an empty denominator.
C7_NoEmptyDenominator ==
    Evaluated => (last.sim.vulDen # 0 /\ last.sim.oldDen # 0)

\* C7 (amended): the division by the size of the vulnerable body never has an
\* empty denominator; a division by the size of an empty oldest body raises
\* inside the try block, reports nothing and does not end the scan.
C7_VulnerableDenominatorGuarded ==
    Evaluated =>
        /\ last.sim.vulDen # 0
        /\ last.sim.oldDen = 0 => (last.sim.oldRaised /\ ~Reported /\ pc # "crashed")

\* C7 witness: a pair that passed the exact checks meets an empty vulnerable
\* body and is skipped before the division.
C7_Witness ==
    /\ Evaluated /\ last.exact = "pass"
    /\ sig.vul_body = {}
    /\ last.sim.vulDen = -1

\* C8: with the hash file or the function file missing the scan aborts in
\* spaceReduction: no candidates, no signature loaded, no pair compared.
C8_MissingArtifactAborts ==
    (~hashFile \/ ~funcFile) =>
        /\ pc \in {"start", "aborted"}
        /\ tarIDX = {} /\ tarFuncs = {}
        /\ nsig = 0 /\ sig = NoSig
        /\ ~Evaluated /\ ~Reported

\* C8 witness: the scan aborted with only the hash file missing.
C8_Witness ==
    /\ pc = "aborted"
    /\ ~hashFile /\ funcFile
    /\ DOMAIN funcs # {}

\* C9: with both target artifacts present the scan never ends abnormally.
C9_TerminatesNormally ==
    (hashFile /\ funcFile) => pc # "crashed"

\* C10: for a signature with essential lines and no dependency lines the
\* dependency check passes for every function that passed the essential-line
\* check, and a signature without an oldest body is never reported on it.
C10_AbsentComponentsAreEmpty ==
    /\ ( /\ Evaluated /\ HasEssential(sig)
         /\ sig.vul_depLines.vul = {} /\ sig.vul_depLines.old = {}
         /\ last.exact # "fail_ess" )
       => last.exact \notin {"crash_dep", "fail_dep"}
    /\ (Evaluated /\ ~sig.hasOld) => last.sim.by # "old"

(***************************************************************************)
(* C11..C20                                                                *)
(***************************************************************************)
\* spaceReduction returned: both artifacts were read and the hash matching ran
Reduced == pc \in {"files", "load", "funcs", "done"} \/ (pc = "crashed" /\ DOMAIN funcs # {})

\* every index the store's OSS index lists
ListedIdxs == UNION {index.ossIDX[o] : o \in DOMAIN index.ossIDX}

\* index i belongs to a component that the OSS index lists and of whose hash
\* set at least one hash is the hash of a target function
ComponentHit(i) ==
    \E o \in DOMAIN index.ossIDX :
        /\ i \in index.ossIDX[o]
        /\ o \in DOMAIN index.vulHashes
        /\ \E h \in index.vulHashes[o] : \E k \in DOMAIN funcs : HashOf(funcs[k].norm) = h

\* C11: after spaceReduction an index is a candidate iff it belongs to a
\* component listed in the OSS index one of whose hashes is the hash of a
\* target function, and the returned list holds every candidate exactly once.
C11_CandidateIffComponentHit ==
    Reduced =>
        /\ \A i \in Idxs \cup ListedIdxs : (i \in tarIDX <=> ComponentHit(i))
        /\ DOMAIN CandidateList(funcs, index) = tarIDX
        /\ \A i \in tarIDX : CandidateList(funcs, index)[i] = 1

\* C11 witness: an index was appended more than once before the list was
\* made unique, and it is a candidate.
C11_Witness ==
    /\ Reduced
    /\ \E i \in tarIDX : ExtendedIDX(funcs, index)[i] >= 2 /\ ComponentHit(i)

\* C12: normalize is idempotent, and two lines that differ only in letter
\* case, spaces, tabs or carriage returns normalize to the same string.
C12_NormalizeIdempotentAndBlind ==
    /\ tpc = "normalized" => result = result2
    /\ tpc = "renormalized" => result2 = result

\* C12 witness: a line and a variant that differ in case and in blanks were
\* normalized, and the result holds no blank and was normalized again.
C12_Witness ==
    /\ tpc = "renormalized"
    /\ text # variant /\ Len(text) # Len(variant)
    /\ \E i \in 1..Len(text) : text[i] = "A"
    /\ Len(result) = 2

\* position i of s lies outside every closed string or character literal and
\* holds a brace, scanning from position i
RECURSIVE CodeBraceFrom(_, _)
CodeBraceFrom(s, i) ==
    IF i > Len(s) THEN FALSE
    ELSE IF s[i] \in {"'", "\""} /\ QuoteEnd(s, i + 1, s[i]) # 0
         THEN CodeBraceFrom(s, QuoteEnd(s, i + 1, s[i]) + 1)
    ELSE IF s[i] \in {"{", "}"} THEN TRUE
    ELSE CodeBraceFrom(s, i + 1)

\* s holds a brace outside string and character literals
HasCodeBrace(s) == CodeBraceFrom(s, 1)

\* C13: the output of removeComment holds no brace outside string and
\* character literals.
C13_NoBraceOutsideLiterals ==
    tpc = "stripped" => ~HasCodeBrace(result)

\* a C scanner, character by character: first position after the line that
\* position i lies on, without its newline
RECURSIVE EndOfLine(_, _)
EndOfLine(s, i) == IF i > Len(s) \/ s[i] = "\n" THEN i ELSE EndOfLine(s, i + 1)

\* position of the "/" that closes a block comment whose text starts at i, 0 if none
RECURSIVE BlockClose(_, _)
BlockClose(s, i) ==
    IF i + 1 > Len(s) THEN 0
    ELSE IF s[i] = "*" /\ s[i + 1] = "/" THEN i + 1
    ELSE BlockClose(s, i + 1)

\* position of the quote q that closes a literal whose text starts at i, 0 if none
RECURSIVE QuoteClose(_, _, _)
QuoteClose(s, i, q) ==
    IF i > Len(s) THEN 0
    ELSE IF s[i] = "\\" THEN (IF i + 1 > Len(s) THEN 0 ELSE QuoteClose(s, i + 2, q))
    ELSE IF s[i] = q THEN i
    ELSE QuoteClose(s, i + 1, q)

\* s from position i on without its // comments and its terminated /* */
\* comments, the literals and all other characters copied
RECURSIVE UncommentedFrom(_, _)
UncommentedFrom(s, i) ==
    IF i > Len(s) THEN <<>>
    ELSE IF s[i] = "/" /\ i < Len(s) /\ s[i + 1] = "/"
         THEN UncommentedFrom(s, EndOfLine(s, i))
    ELSE IF s[i] = "/" /\ i < Len(s) /\ s[i + 1] = "*" /\ BlockClose(s, i + 2) # 0
         THEN UncommentedFrom(s, BlockClose(s, i + 2) + 1)
    ELSE IF s[i] \in {"'", "\""} /\ QuoteClose(s, i + 1, s[i]) # 0
         THEN SubSeq(s, i, QuoteClose(s, i + 1, s[i]))
                  \o UncommentedFrom(s, QuoteClose(s, i + 1, s[i]) + 1)
    ELSE <<s[i]>> \o UncommentedFrom(s, i + 1)

Uncommented(s) == UncommentedFrom(s, 1)

WithoutBraces(s) == SelectSeq(s, LAMBDA c : c \notin {"{", "}"})

\* C14: removeComment removes every // comment and every terminated /* */
\* comment and keeps everything else - code, quoted literals with the
\* comment-like sequences in them, an unterminated /* and what follows it -
\* verbatim; braces in code aside, which it may drop.
C14_RemovesExactlyTheComments ==
    tpc = "stripped" =>
        /\ WithoutBraces(result) = WithoutBraces(Uncommented(text))
        /\ ~HasCodeBrace(Uncommented(text)) => result = Uncommented(text)

\* C14 witness: a string literal that holds a comment-like sequence came
\* through unchanged.
C14_Witness ==
    /\ tpc = "stripped"
    /\ text = <<"\"", "/", "/", "\"">>
    /\ result = text

\* C15: distinct functions get distinct keys: the key under which a function
\* is stored holds no record of an earlier function.
C15_NoRecordOverwritten ==
    [][ntag' = ntag + 1 => lastFn'.key \notin DOMAIN OSSfuncSet]_vars

\* C16: in every record 'orig', 'norm' and 'abst' have the same number of lines.
C16_SameNumberOfLines ==
    \A k \in DOMAIN OSSfuncSet :
        /\ Len(OSSfuncSet[k].orig) = Len(OSSfuncSet[k].norm)
        /\ Len(OSSfuncSet[k].orig) = Len(OSSfuncSet[k].abst)

\* C17: when the tag tool failed for a function body, abstract returned the
\* body unmodified, the function got its record with 'abst' equal to 'norm',
\* and the extraction goes on with the file.
C17_ToolFailureKeepsBody ==
    (lastFn.stored /\ ~lastFn.toolOK) =>
        /\ lastFn.absBody = lastFn.raw
        /\ lastFn.key \in DOMAIN OSSfuncSet
        /\ OSSfuncSet[lastFn.key].abst = OSSfuncSet[lastFn.key].norm
        /\ ppc \in {"file", "walk", "written"}

\* C17 witness: after a failure of the tag tool on a readable body another
\* function was abstracted, its body changed, and the artifacts were written.
C17_Witness ==
    /\ lastFn.stored /\ lastFn.afterFailure /\ lastFn.toolOK
    /\ lastFn.absBody # lastFn.raw
    /\ \E k \in DOMAIN OSSfuncSet : k # lastFn.key /\ OSSfuncSet[k].orig # <<>>
                                        /\ OSSfuncSet[k].abst = OSSfuncSet[k].norm
    /\ ppc = "written"

\* C18: a file that no encoding reads, or on which the tag tool fails,
\* contributes no function record; the other files are processed and the
\* artifacts are written.
C18_SkippedFileHasNoRecord ==
    /\ lastFn.stored => lastFn.readable
    /\ \A k \in DOMAIN OSSfuncSet : OSSfuncSet[k].orig # <<>>

\* the target function's lines in the representation of the signature's mode
TargetLines(s, f) == IF AbstractMode(s) THEN f.abst ELSE f.norm

\* the signature's essential lines in that representation
EssLines(s) == IF AbstractMode(s) THEN AbsEssLines(s) ELSE NormEssLines(s)

\* C19: every match reported for a signature with essential lines is for a
\* function whose line set, in the representation of the matching mode,
\* contains every essential line; the with-oldest dependency retry never
\* overrides a failed essential-line check.
C19_ReportedHoldsEssentialLines ==
    (Reported /\ HasEssential(sig)) => EssLines(sig) \subseteq TargetLines(sig, LastFunc)

\* C19 witness: a match reported after the without-oldest dependency check
\* failed and the with-oldest retry passed, the essential lines being held.
C19_Witness ==
    /\ Reported /\ HasEssential(sig)
    /\ depSets.def
    /\ ~(DepWithout(sig, depSets) \subseteq TargetLines(sig, LastFunc))
    /\ DepWith(sig, depSets) # {}
    /\ EssLines(sig) \subseteq TargetLines(sig, LastFunc)

\* the signature's own dependency lines, as the detector prepares them, in the
\* representation of the matching mode
SigDepWithout(s) ==
    {removeComment(IF AbstractMode(s) THEN d.abs_norm_vul ELSE d.orig_norm_vul) :
        d \in s.vul_depLines.vul}
SigDepWith(s) ==
    {removeComment(IF AbstractMode(s) THEN d.abs_norm_vul ELSE d.orig_norm_vul) :
        d \in s.vul_depLines.old}

\* C20: for a pair that passed the essential-line check the dependency check
\* passes iff every without-oldest dependency line of the signature is in the
\* target's line set, or the with-oldest set is non-empty and every one of its
\* lines is; when it fails, no match is reported for the pair.
C20_DependencyCheckOnOwnLines ==
    (Evaluated /\ HasEssential(sig) /\ last.exact # "fail_ess") =>
        /\ (last.exact \notin {"fail_dep", "crash_dep"}) <=>
              \/ SigDepWithout(sig) \subseteq TargetLines(sig, LastFunc)
              \/ /\ SigDepWith(sig) # {}
                 /\ SigDepWith(sig) \subseteq TargetLines(sig, LastFunc)
        /\ last.exact = "fail_dep" => ~Reported

(***************************************************************************)
(* C21..C30                                                                *)
(***************************************************************************)
\* the mode the claim prescribes for a delete-and-add signature: abstract iff
\* the two abstracted line sets differ
PrescribedAbstract(s) == AbsPatchLines(s) # AbsEssLines(s)

\* the exact checks of a delete-and-add signature, all taken in one
\* representation: the lines of the function, the essential lines, the
\* dependency sets and the patch-added lines the detector holds
ChecksIn(abs, s, f) ==
    LET L   == IF abs THEN f.abst ELSE f.norm
        E   == IF abs THEN AbsEssLines(s) ELSE NormEssLines(s)
        W   == IF abs THEN depSets.absW ELSE depSets.norW
        O   == IF abs THEN depSets.absO ELSE depSets.norO
        N   == IF abs THEN patSets.newAbsPat ELSE patSets.newPat
    IN  IF ~(E \subseteq L) THEN "fail_ess"
        ELSE IF ~depSets.def THEN "crash_dep"
        ELSE IF ~(W \subseteq L \/ (O # {} /\ O \subseteq L)) THEN "fail_dep"
        ELSE IF N \cap L # {} THEN "fail_pat"
        ELSE "pass"

\* C21: for a signature with both essential and patch-added lines every exact
\* check is taken against the target's abstracted lines iff the set of
\* abstracted patch-added lines differs from the set of abstracted essential
\* lines, and against the target's normalized lines when the sets are equal.
C21_ModeByAbstractedSets ==
    (Evaluated /\ DeleteAndAdd(sig)) =>
        last.exact = ChecksIn(PrescribedAbstract(sig), sig, LastFunc)

\* C21 witness: a pair in literal mode passed all exact checks that it would
\* have failed on the abstracted lines.
C21_Witness ==
    /\ Evaluated /\ DeleteAndAdd(sig) /\ ~PrescribedAbstract(sig)
    /\ last.exact = "pass"
    /\ ChecksIn(TRUE, sig, LastFunc) # "pass"

\* what a signature's own files define when nothing is carried over: absent
\* patch-added or dependency lines are empty sets
OwnPat(s) == PatSetsAfter(s, [def |-> TRUE, newPat |-> {}, newAbsPat |-> {}])
OwnDep(s) ==
    DepSetsAfter(s, [def |-> TRUE, absW |-> {}, norW |-> {}, absO |-> {}, norO |-> {}])

\* C22: the outcome of evaluating a pair depends only on the signature's own
\* data and the function; nothing assigned while an earlier signature was
\* evaluated takes part, so the order of the signature files is immaterial.
C22_OutcomeFromOwnData ==
    Evaluated =>
        last = Evaluate(sig, OwnPat(sig), OwnDep(sig), last.file, LastFunc)

\* C23: every evaluated signature carries the shape its contents have:
\* shape 1 iff it has essential lines and no patch-added lines, shape 2 iff
\* it has both, shape 3 iff it has patch-added lines and no essential lines;
\* a signature with neither kind of line is never evaluated.
C23_ShapeAgreesWithContents ==
    Evaluated =>
        /\ FlagOf(sig) = 1 <=> DeleteOnly(sig)
        /\ FlagOf(sig) = 2 <=> DeleteAndAdd(sig)
        /\ FlagOf(sig) = 3 <=> AddOnly(sig)
        /\ HasEssential(sig) \/ HasPatch(sig)

\* the function's own hash is a hash of component o, and o is listed in the
\* OSS index
HitsComponent(k, o) ==
    /\ o \in DOMAIN index.vulHashes \cap DOMAIN index.ossIDX
    /\ HashOf(funcs[k].norm) \in index.vulHashes[o]

OwnHashHit(k) == \E o \in DOMAIN index.ossIDX : HitsComponent(k, o)

\* the two keys name files of one directory
SameDirectory(k, m) ==
    /\ Len(k.path) = Len(m.path)
    /\ \A i \in 1..(Len(k.path) - 1) : k.path[i] = m.path[i]

\* C24 as stated: spaceReduction retains a target function iff that
\* function's own hash is a hash of some component listed in the OSS index.
C24_RetainedIffOwnHashHit ==
    Reduced => tarFuncs = {k \in DOMAIN funcs : OwnHashHit(k)}

\* C24: spaceReduction retains a target function iff its file lies in the
\* directory of a target function (itself or another) whose hash is a hash of
\* some component listed in the OSS index; the functions of every other
\* directory are dropped.
C24_RetainedIffDirectoryHit ==
    Reduced =>
        tarFuncs = {k \in DOMAIN funcs :
                       \E m \in DOMAIN funcs : SameDirectory(k, m) /\ OwnHashHit(m)}

\* C24 witness: a function whose own hash hits nothing is retained next to a
\* hit function of its directory.
C24_Witness ==
    /\ Reduced
    /\ \E k \in tarFuncs : ~OwnHashHit(k)
    /\ \E k \in tarFuncs : OwnHashHit(k)

\* the signature's idx belongs to a component that the function's own hash hits
PairFromIntersection(s, k) ==
    \E o \in DOMAIN index.ossIDX : s.idx \in index.ossIDX[o] /\ HitsComponent(k, o)

\* how many retained functions precede or are the function evaluated last
RankOfLast == Cardinality({k \in tarFuncs : KeyPos(k) <= KeyPos(last.file)})

\* C25 as stated: a signature is compared with a function only when the
\* function was retained through a hash hit against the component the
\* signature's idx belongs to.
C25_OnlyIntersectionPairs ==
    Evaluated => PairFromIntersection(sig, last.file)

\* C25: a signature is compared with a function only when its idx is a
\* candidate and the function is retained; the pairs are not restricted to
\* the hits: the retained functions are taken one after the other, each once,
\* and when the pass over them ends every one of them has been compared.
C25_CandidateTimesRetained ==
    /\ pc = "funcs" => (sig.idx \in tarIDX /\ pos \in 1..Cardinality(tarFuncs))
    /\ Evaluated =>
          /\ sig.idx \in tarIDX /\ last.file \in tarFuncs
          /\ RankOfLast = IF pc = "crashed" THEN pos ELSE pos - 1
          /\ pc \in {"files", "done"} => RankOfLast = Cardinality(tarFuncs)

\* C25 witness: a function retained by a hit against one component was
\* compared with the signature of another component, and passed the checks.
C25_Witness ==
    /\ Evaluated /\ OwnHashHit(last.file)
    /\ ~PairFromIntersection(sig, last.file)
    /\ last.exact = "pass"

\* C28: a pair is reported at most once: when the vulnerable-body test
\* reports it the oldest-body test is not reached for it; and after a report
\* the scan goes on with the next retained function, or with the next body
\* file when the function was the last one.
C28_ReportedOnceAndScanGoesOn ==
    Evaluated =>
        /\ last.printed <= 1
        /\ last.sim.by = "vul" => (last.sim.oldDen = -1 /\ ~last.sim.oldRaised)
        /\ (Reported /\ pc # "done") =>
              pc = IF RankOfLast < Cardinality(tarFuncs) THEN "funcs" ELSE "files"

\* C28 witness: the vulnerable-body test reported a pair whose signature has
\* an oldest body to test, and another retained function remains.
C28_Witness ==
    /\ Reported /\ last.sim.by = "vul"
    /\ sig.hasOld /\ sig.old_body # {}
    /\ pc = "funcs"

\* the tokens of a body: its maximal runs of word characters and its single
\* non-word characters, from left to right
RECURSIVE WordRun(_)
WordRun(s) == IF s = <<>> \/ ~IsWord(Head(s)) THEN 0 ELSE 1 + WordRun(Tail(s))

RECURSIVE Tokens(_)
Tokens(s) ==
    IF s = <<>> THEN <<>>
    ELSE LET n == IF IsWord(Head(s)) THEN WordRun(s) ELSE 1
         IN  <<SubSeq(s, 1, n)>> \o Tokens(SubSeq(s, n + 1, Len(s)))

Names(list) == {list[i] : i \in 1..Len(list)}
Collected(t) == Names(t.parameterList) \cup Names(t.dataTypeList) \cup Names(t.variableList)

\* C26: an identifier collected both as a parameter and as a type or local
\* variable becomes FPARAM at every occurrence, and one collected both as a
\* type and as a local variable (and not as a parameter) becomes DTYPE.
C26_FirstListWins ==
    tpc = "abstracted" =>
        LET T == Tokens(text)
            R == Tokens(result)
        IN  /\ Len(R) = Len(T)
            /\ \A i \in 1..Len(T) :
                  /\ ( /\ T[i] \in Names(lists.parameterList)
                       /\ T[i] \in Names(lists.dataTypeList) \cup Names(lists.variableList) )
                     => R[i] = FPARAM
                  /\ ( /\ T[i] \notin Names(lists.parameterList)
                       /\ T[i] \in Names(lists.dataTypeList) \cap Names(lists.variableList) )
                     => R[i] = DTYPE

\* C27: after abstraction no whole-token occurrence of a collected name
\* remains, adjacent occurrences and an occurrence at the very end of the
\* body included, and every token that is not a collected name is unaltered.
C27_EveryWholeTokenReplaced ==
    tpc = "abstracted" =>
        LET T == Tokens(text)
            R == Tokens(result)
        IN  /\ Len(R) = Len(T)
            /\ \A i \in 1..Len(R) : R[i] \notin Collected(lists)
            /\ \A i \in 1..Len(T) : T[i] \notin Collected(lists) => R[i] = T[i]

RECURSIVE SumOfSizes(_)
SumOfSizes(c) == IF c = <<>> THEN 0 ELSE Head(c).size + SumOfSizes(Tail(c))

\* C30: after any sequence of get, put and clear the tracked size is the sum
\* of the sizes the held entries were put with, and it never exceeds max_size.
C30_TrackedSizeIsSumOfEntries ==
    /\ lruSize = SumOfSizes(lruCache)
    /\ lruSize <= MaxCache

====
